---- MODULE Spec2Model ----
(***************************************************************************)
(* A model of getMetadata and filterMetadata (src/src/get-metadata.js).    *)
(*                                                                         *)
(* JavaScript values are records [type, val]; a string's val is the        *)
(* sequence of its characters.  An HTML document is a sequence of lexical  *)
(* units: single characters, and the literal tag texts the regular         *)
(* expressions of NODES_REG_EXPS look for (an opening text and a closing   *)
(* text per pattern), each taken as one unit.  In the unit names a single  *)
(* quote stands for the double quote of the source.                        *)
(***************************************************************************)
EXTENDS Integers, Sequences, FiniteSets, TLC

VARIABLES html, extracted, metadata, query, filtered, pc

vars == <<html, extracted, metadata, query, filtered, pc>>

(***************************************************************************)
(* Bounds of the input sets.                                               *)
(***************************************************************************)
MaxHtmlLen == 3
MaxHeadLen == 6
MaxQueryLen == 5
MaxRecords == 2

(***************************************************************************)
(* JavaScript values.                                                      *)
(***************************************************************************)
JsNull == [type |-> "null", val |-> <<>>]
JsUndefined == [type |-> "undefined", val |-> <<>>]
JsString(s) == [type |-> "string", val |-> s]
JsArray(a) == [type |-> "array", val |-> a]
JsNumber(digits) == [type |-> "number", val |-> digits]
JsObject == [type |-> "object", val |-> <<>>]
TypeError == [type |-> "TypeError", val |-> <<>>]
Pending == [type |-> "pending", val |-> <<>>]

\* ToBoolean: what `!v` and `a || b` test.
Truthy(v) ==
  CASE v.type = "null" -> FALSE
    [] v.type = "undefined" -> FALSE
    [] v.type = "string" -> v.val # <<>>
    [] v.type = "number" -> v.val # <<"0">>
    [] OTHER -> TRUE

\* ToString of a regular expression's argument: exec(null) searches "null".
ToStringChars(v) ==
  IF v.type = "null" THEN <<"n", "u", "l", "l">> ELSE v.val

Min(S) == CHOOSE x \in S : \A y \in S : x <= y

\* All sequences over S of length at most n.
BoundedSeq(S, n) == UNION {[1..k -> S] : k \in 0..n}

(***************************************************************************)
(* The regular expressions.  Every pattern of NODES_REG_EXPS has the shape *)
(* open (.*?) close: a literal opening text, a lazy capture of characters  *)
(* the dot matches, a literal closing text.                                *)
(***************************************************************************)
META_CLOSE == "'>"

NODES_REG_EXPS ==
  [head |-> [open |-> "<head>", close |-> "</head>"],
   title |-> [open |-> "<title>", close |-> "</title>"],
   url |-> [open |-> "<meta property='og:url' content='", close |-> META_CLOSE],
   siteName |-> [open |-> "<meta property='og:site_name' content='", close |-> META_CLOSE],
   description |-> [open |-> "<meta property='og:description' content='", close |-> META_CLOSE],
   description2 |-> [open |-> "<meta name='description' content='", close |-> META_CLOSE],
   keywords |-> [open |-> "<meta name='keywords' content='", close |-> META_CLOSE],
   author |-> [open |-> "<meta name='author' content='", close |-> META_CLOSE]]

\* The line terminators: the characters `.` does not match (no s flag).
LineTerminators == {"\n", "\r", "LS", "PS"}

DotMatches(c) == c \notin LineTerminators

\* The index of the first closing text after position p (0 when there is none).
FirstClose(s, p, node) ==
  LET Q == {q \in (p + 1)..Len(s) : s[q] = node.close}
  IN IF Q = {} THEN 0 ELSE Min(Q)

\* The positions at which a match of the pattern can start: an opening text,
\* then only characters the dot matches up to the first closing text.
MatchStarts(s, node) ==
  {p \in 1..Len(s) :
     /\ s[p] = node.open
     /\ FirstClose(s, p, node) # 0
     /\ \A k \in (p + 1)..(FirstClose(s, p, node) - 1) : DotMatches(s[k])}

\* node.exec(html): the leftmost match; result[1] is the capture group.
RegExpExec(s, node) ==
  IF MatchStarts(s, node) = {} THEN JsNull
  ELSE LET p == Min(MatchStarts(s, node))
       IN JsString(SubSeq(s, p + 1, FirstClose(s, p, node) - 1))

getNodeValue(html_, node) == RegExpExec(ToStringChars(html_), node)

\* html.replace(NEWLINE_REGEXP, " ") with NEWLINE_REGEXP = /\r?\n|\r/g.
RECURSIVE ReplaceNewlines(_)
ReplaceNewlines(s) ==
  IF s = <<>> THEN <<>>
  ELSE IF Len(s) >= 2 /\ s[1] = "\r" /\ s[2] = "\n"
       THEN <<" ">> \o ReplaceNewlines(SubSeq(s, 3, Len(s)))
  ELSE IF s[1] = "\n" \/ s[1] = "\r"
       THEN <<" ">> \o ReplaceNewlines(Tail(s))
  ELSE <<s[1]>> \o ReplaceNewlines(Tail(s))

\* String.prototype.split with a set of one-character separators: the pieces
\* between separators, empty pieces included.
RECURSIVE Split(_, _)
Split(s, seps) ==
  LET I == {i \in 1..Len(s) : s[i] \in seps}
  IN IF I = {} THEN <<s>>
     ELSE <<SubSeq(s, 1, Min(I) - 1)>> \o Split(SubSeq(s, Min(I) + 1, Len(s)), seps)

RECURSIVE RemoveDuplicates(_)
\* a with every entry that repeats an earlier one removed.
RemoveDuplicates(a) ==
  IF a = <<>> THEN <<>>
  ELSE LET r == RemoveDuplicates(SubSeq(a, 1, Len(a) - 1))
       IN IF \E i \in 1..Len(r) : r[i] = a[Len(a)] THEN r ELSE Append(r, a[Len(a)])

\* FilterTruthy, had the entries been collected without repetition.
FilterTruthyUnique(a) == RemoveDuplicates(SelectSeq(a, LAMBDA k : k # <<>>))

\* .filter((keyword) => !!keyword)
FilterTruthy(a) == SelectSeq(a, LAMBDA k : k # <<>>)

\* getNodeValue(head, keywords)?.split(",").filter(...) || null
KeywordsOf(head) ==
  LET k == getNodeValue(head, NODES_REG_EXPS.keywords)
  IN IF k.type = "null" THEN JsNull
     ELSE JsArray(FilterTruthy(Split(k.val, {","})))

\* DescriptionOf, had the two patterns been tried in the other order.
DescriptionOfNameFirst(head) ==
  LET d == getNodeValue(head, NODES_REG_EXPS.description2)
  IN IF Truthy(d) THEN d ELSE getNodeValue(head, NODES_REG_EXPS.description)

\* getNodeValue(head, description) || getNodeValue(head, description2)
DescriptionOf(head) ==
  LET d == getNodeValue(head, NODES_REG_EXPS.description)
  IN IF Truthy(d) THEN d ELSE getNodeValue(head, NODES_REG_EXPS.description2)

AllNull ==
  [url |-> JsNull, siteName |-> JsNull, title |-> JsNull,
   description |-> JsNull, keywords |-> JsNull, author |-> JsNull]

\* HeadOf, had the whole document been searched when it has no head.
HeadOrWholeDocument(h) ==
  LET flatHtml == JsString(ReplaceNewlines(h.val))
      head == getNodeValue(flatHtml, NODES_REG_EXPS.head)
  IN IF head.type = "null" THEN flatHtml ELSE head

\* const flatHtml = html.replace(NEWLINE_REGEXP, " ");
\* const head = getNodeValue(flatHtml, NODES_REG_EXPS.head);
HeadOf(h) == getNodeValue(JsString(ReplaceNewlines(h.val)), NODES_REG_EXPS.head)

getMetadata(h) ==
  IF ~Truthy(h) \/ h.type # "string" THEN AllNull
  ELSE LET head == HeadOf(h)
       IN [url |-> getNodeValue(head, NODES_REG_EXPS.url),
           siteName |-> getNodeValue(head, NODES_REG_EXPS.siteName),
           title |-> getNodeValue(head, NODES_REG_EXPS.title),
           description |-> DescriptionOf(head),
           keywords |-> KeywordsOf(head),
           author |-> getNodeValue(head, NODES_REG_EXPS.author)]

(***************************************************************************)
(* The documents handed to getMetadata.                                    *)
(***************************************************************************)
MetaOpens ==
  {NODES_REG_EXPS.url.open, NODES_REG_EXPS.siteName.open,
   NODES_REG_EXPS.description.open, NODES_REG_EXPS.description2.open,
   NODES_REG_EXPS.keywords.open, NODES_REG_EXPS.author.open}

HtmlUnits ==
  MetaOpens \cup
  {"<head>", "</head>", "<title>", "</title>", META_CLOSE, "a", ",", "\n", "\r", "LS"}

\* The vocabularies of the text between <head> and </head>.
HeadVocabularies ==
  {{"<title>", "</title>", "a", "\n", "\r", "LS"},
   {NODES_REG_EXPS.url.open, NODES_REG_EXPS.author.open, META_CLOSE, "a", "\n"},
   {NODES_REG_EXPS.siteName.open, NODES_REG_EXPS.keywords.open, META_CLOSE, "a", ","},
   {NODES_REG_EXPS.description.open, NODES_REG_EXPS.description2.open, META_CLOSE, "a", "b"},
   {NODES_REG_EXPS.keywords.open, META_CLOSE, "a", " ", ","}}

\* A document whose head holds the text s.
HeadDocument(s) == <<"<head>">> \o s \o <<"</head>">>

NonStringInputs == {JsNull, JsUndefined, JsNumber(<<"0">>), JsNumber(<<"7">>), JsObject}

\* The inputs of getMetadata: the values that are no string, the strings of
\* at most MaxHtmlLen units, and the documents whose head holds at most
\* MaxHeadLen units of one vocabulary.
IsHtmlInput(h) ==
  \/ h \in NonStringInputs
  \/ \E k \in 0..MaxHtmlLen : \E s \in [1..k -> HtmlUnits] : h = JsString(s)
  \/ \E V \in HeadVocabularies : \E k \in 0..MaxHeadLen : \E s \in [1..k -> V] :
       h = JsString(HeadDocument(s))

NoRecords == JsArray(<<>>)
NoQuery == JsString(<<>>)

ExtractInit ==
  /\ IsHtmlInput(html)
  /\ extracted = Pending
  /\ metadata = NoRecords
  /\ query = NoQuery
  /\ filtered = Pending
  /\ pc = "extract"

CallGetMetadata ==
  /\ pc = "extract"
  /\ extracted' = getMetadata(html)
  /\ pc' = "extracted"
  /\ UNCHANGED <<html, metadata, query, filtered>>

(***************************************************************************)
(* filterMetadata and its helpers.                                         *)
(***************************************************************************)
SPECIAL_CHARS == {"@", "#", "$", "%", "^", "&", "*", "_", "=", "+", ".", ",", "-"}

\* word.match(SPECIAL_CHARS_REGEXP) is not null
HasSpecialChars(word) == \E i \in 1..Len(word) : word[i] \in SPECIAL_CHARS

\* .replace(SPECIAL_CHARS_REGEXP, "")
RemoveSpecialChars(s) == SelectSeq(s, LAMBDA c : c \notin SPECIAL_CHARS)

LowerCaseOf(c) ==
  CASE c = "A" -> "a"
    [] c = "B" -> "b"
    [] OTHER -> c

\* .toLowerCase()
ToLowerCase(s) == [i \in 1..Len(s) |-> LowerCaseOf(s[i])]

\* values.includes(word)
Includes(s, word) ==
  \E i \in 0..(Len(s) - Len(word)) : SubSeq(s, i + 1, i + Len(word)) = word

RECURSIVE Join(_, _)
\* Array.prototype.join over an array of character sequences.
Join(a, sep) ==
  IF a = <<>> THEN <<>>
  ELSE IF Len(a) = 1 THEN a[1]
  ELSE a[1] \o sep \o Join(Tail(a), sep)

\* handleSpecialChars, had the word without its special characters been left out.
handleSpecialCharsSplitOnly(word) ==
  IF ~HasSpecialChars(word) THEN <<word>>
  ELSE Split(word, SPECIAL_CHARS) \o <<word>>

handleSpecialChars(word) ==
  IF ~HasSpecialChars(word) THEN <<word>>
  ELSE Split(word, SPECIAL_CHARS) \o <<RemoveSpecialChars(word), word>>

RECURSIVE ReduceWords(_)
\* .reduce((words, currentWord) => { words.push(...handleSpecialChars(currentWord)) }, [])
ReduceWords(ws) ==
  IF ws = <<>> THEN <<>>
  ELSE handleSpecialChars(ws[1]) \o ReduceWords(Tail(ws))

\* getQueryArray, had the length test been word.length > 0.
getQueryArrayKeepShort(q) ==
  SelectSeq(ReduceWords(Split(q, {" "})), LAMBDA word : Len(word) > 0)

getQueryArray(q) ==
  SelectSeq(ReduceWords(Split(q, {" "})), LAMBDA word : Len(word) > 1)

\* Object.values(metadata): the values in the order the keys were created.
ObjectValues(m) ==
  <<m.url, m.siteName, m.title, m.description, m.keywords, m.author>>

\* What join makes of one element: null and undefined give "", an array gives
\* its elements joined by ",".
ElementToString(v) ==
  CASE v.type = "string" -> v.val
    [] v.type = "array" -> Join(v.val, <<",">>)
    [] OTHER -> <<>>

formatMetadataValues(m) ==
  LET values == ObjectValues(m)
      strings == [i \in 1..Len(values) |-> ElementToString(values[i])]
  IN ToLowerCase(RemoveSpecialChars(Join(strings, <<" ">>)))

\* doesMetadataMatch, had query.every been used for query.some.
doesMetadataMatchEvery(m, queryArray) ==
  \A i \in 1..Len(queryArray) :
    Includes(formatMetadataValues(m), ToLowerCase(queryArray[i]))

doesMetadataMatch(m, queryArray) ==
  \E i \in 1..Len(queryArray) :
    Includes(formatMetadataValues(m), ToLowerCase(queryArray[i]))

\* Object.values(null) and Object.values(undefined) throw a TypeError.
IsNullish(m) == m \in {JsNull, JsUndefined}

\* filterMetadata, had the empty query been tested before the arguments' types.
filterMetadataEmptyQueryFirst(md, q) ==
  IF ~Truthy(q) THEN md
  ELSE IF ~Truthy(md) \/ md.type # "array" \/ q.type # "string" THEN JsArray(<<>>)
  ELSE IF \E i \in 1..Len(md.val) : IsNullish(md.val[i]) THEN TypeError
  ELSE JsArray(SelectSeq(md.val, LAMBDA m : doesMetadataMatch(m, getQueryArray(q.val))))

filterMetadata(md, q) ==
  IF ~Truthy(md) \/ md.type # "array" \/ q.type # "string" THEN JsArray(<<>>)
  ELSE IF ~Truthy(q) THEN md
  ELSE IF \E i \in 1..Len(md.val) : IsNullish(md.val[i]) THEN TypeError
  ELSE JsArray(SelectSeq(md.val, LAMBDA m : doesMetadataMatch(m, getQueryArray(q.val))))

(***************************************************************************)
(* The collections and queries handed to filterMetadata.  The records are  *)
(* what getMetadata returns for three documents.                           *)
(***************************************************************************)
SampleDocuments ==
  {<<"<head>", NODES_REG_EXPS.siteName.open, "a", META_CLOSE,
     "<title>", "B", "a", "</title>", "</head>">>,
   <<"<head>", NODES_REG_EXPS.keywords.open, "a", ",", "b", META_CLOSE,
     NODES_REG_EXPS.author.open, "a", "-", "a", META_CLOSE, "</head>">>,
   <<"<title>", "a", "a", "</title>">>}

SampleRecords == {getMetadata(JsString(d)) : d \in SampleDocuments}

QueryChars == {"a", "B", "-", " "}

MetadataInputs ==
  {JsNull, JsUndefined, JsObject} \cup
  {JsArray(a) : a \in BoundedSeq(SampleRecords \cup {JsNull}, MaxRecords)}

QueryInputs ==
  {JsNull, JsUndefined, JsNumber(<<"7">>)} \cup
  {JsString(s) : s \in BoundedSeq(QueryChars, MaxQueryLen)}

NoHtml == JsString(<<>>)

FilterInit ==
  /\ html = NoHtml
  /\ extracted = Pending
  /\ metadata \in MetadataInputs
  /\ query \in QueryInputs
  /\ filtered = Pending
  /\ pc = "filter"

CallFilterMetadata ==
  /\ pc = "filter"
  /\ filtered' = filterMetadata(metadata, query)
  /\ pc' = "filtered"
  /\ UNCHANGED <<html, extracted, metadata, query>>

ExtractNext == CallGetMetadata

FilterNext == CallFilterMetadata

Init == ExtractInit \/ FilterInit

Next == CallGetMetadata \/ CallFilterMetadata

\* One call of getMetadata.
ExtractSpec == ExtractInit /\ [][ExtractNext]_vars

\* One call of filterMetadata.
FilterSpec == FilterInit /\ [][FilterNext]_vars

\* One call of either function.
Spec == Init /\ [][Next]_vars

(***************************************************************************)
(* Properties of getMetadata, stated for ExtractSpec.                      *)
(***************************************************************************)
StringFields == {"url", "siteName", "title", "description", "author"}

\* C1: every field of the record getMetadata returns is absent (null) or
\* populated: no string field is the empty string, and keywords is neither
\* an empty array nor an array holding an empty entry.
C1_FieldsAbsentOrPopulated ==
  pc = "extracted" =>
    /\ \A f \in StringFields :
         \/ extracted[f].type = "null"
         \/ extracted[f].type = "string" /\ extracted[f].val # <<>>
    /\ \/ extracted.keywords.type = "null"
       \/ /\ extracted.keywords.type = "array"
          /\ extracted.keywords.val # <<>>
          /\ \A i \in 1..Len(extracted.keywords.val) : extracted.keywords.val[i] # <<>>

\* The content the keywords pattern captures in the head of the document.
KeywordsContent == getNodeValue(HeadOf(html), NODES_REG_EXPS.keywords).val

\* The positions at which a non-empty comma-separated piece of c starts.
PieceStarts(c) == {i \in 1..Len(c) : c[i] # "," /\ (i = 1 \/ c[i - 1] = ",")}

\* The last position of the piece that starts at i.
PieceEnd(c, i) ==
  CHOOSE j \in i..Len(c) :
    /\ \A k \in i..j : c[k] # ","
    /\ j = Len(c) \/ c[j + 1] = ","

\* The non-empty comma-separated pieces of c, in the order they occur.
NonEmptyPieces(c) ==
  LET S == PieceStarts(c)
      Nth(k) == CHOOSE i \in S : Cardinality({j \in S : j < i}) = k - 1
  IN [k \in 1..Cardinality(S) |-> SubSeq(c, Nth(k), PieceEnd(c, Nth(k)))]

KeywordsPopulated ==
  /\ pc = "extracted"
  /\ extracted.keywords.type = "array"
  /\ extracted.keywords.val # <<>>

\* C2 as claimed: a populated keywords is the non-empty comma-separated pieces
\* of the captured content, in source order, untrimmed, with duplicate entries
\* removed.
C2_KeywordsPiecesWithoutDuplicates ==
  KeywordsPopulated =>
    extracted.keywords.val = RemoveDuplicates(NonEmptyPieces(KeywordsContent))

\* C2 as amended: a populated keywords is the non-empty comma-separated pieces
\* of the captured content, in source order, untrimmed; a piece that occurs
\* twice in the content occurs twice in keywords.
C2_KeywordsPiecesInOrder ==
  KeywordsPopulated =>
    extracted.keywords.val = NonEmptyPieces(KeywordsContent)

\* A content with the same piece twice has been split.
C2_Witness ==
  /\ KeywordsPopulated
  /\ KeywordsContent = <<"a", ",", "a">>
  /\ extracted.keywords.val = <<<<"a">>, <<"a">>>>

\* What the og:description and the name="description" patterns find in the head.
OgDescription == getNodeValue(HeadOf(html), NODES_REG_EXPS.description)
NameDescription == getNodeValue(HeadOf(html), NODES_REG_EXPS.description2)

\* C3 as claimed: description is the og:description content whenever that tag
\* is present in the head (an empty content may show as absent), the
\* name="description" content only when no og:description tag is present, and
\* absent when neither tag is.
C3_OgDescriptionWheneverPresent ==
  pc = "extracted" =>
    /\ OgDescription.type # "null" =>
         \/ extracted.description = OgDescription
         \/ OgDescription.val = <<>> /\ extracted.description = JsNull
    /\ OgDescription.type = "null" => extracted.description = NameDescription

OgDescriptionEmptyOrMissing ==
  OgDescription.type = "null" \/ OgDescription.val = <<>>

\* C3 as amended: description is the og:description content whenever that tag
\* is present in the head with a non-empty content, wherever the
\* name="description" tag stands; when the og:description tag is missing or
\* its content is empty, description is the name="description" content, and
\* absent when that tag is missing too.
C3_OgDescriptionWhenNonEmpty ==
  pc = "extracted" =>
    /\ ~OgDescriptionEmptyOrMissing => extracted.description = OgDescription
    /\ OgDescriptionEmptyOrMissing => extracted.description = NameDescription

\* Both tags are in the head, name="description" first, and og:description won.
C3_Witness ==
  /\ pc = "extracted"
  /\ html.val = <<"<head>", NODES_REG_EXPS.description2.open, "b", META_CLOSE,
                  NODES_REG_EXPS.description.open, "a", META_CLOSE, "</head>">>
  /\ extracted.description = JsString(<<"a">>)

\* s holds a <head> with a </head> somewhere after it.
HasHeadSpan(s) ==
  \E p, q \in 1..Len(s) : p < q /\ s[p] = "<head>" /\ s[q] = "</head>"

\* C4: getMetadata returns the record with all six fields absent when the
\* input is not a string, is the empty string, or is a string without a
\* <head>...</head> span, whatever tags it holds outside a head.
C4_AllAbsentWithoutHead ==
  (/\ pc = "extracted"
   /\ html.type # "string" \/ html.val = <<>> \/ ~HasHeadSpan(html.val))
    => extracted = AllNull

\* A title outside any head has been ignored.
C4_Witness ==
  /\ pc = "extracted"
  /\ html = JsString(<<"<title>", "a", "</title>">>)
  /\ extracted = AllNull

(***************************************************************************)
(* Properties of filterMetadata, stated for FilterSpec (C5 for Spec).      *)
(***************************************************************************)

\* C5: neither function raises an exception: getMetadata returns a record and
\* filterMetadata returns a collection, whatever the arguments are.
C5_NeverThrows ==
  /\ pc = "extracted" => DOMAIN extracted = DOMAIN AllNull
  /\ pc = "filtered" => filtered.type = "array"

\* C6: filterMetadata returns the empty collection when metadata is not an
\* array or query is not a string, also when query is the empty string; and it
\* returns metadata itself when metadata is an array and query is "".
C6_InvalidInputsAndEmptyQuery ==
  pc = "filtered" =>
    /\ (metadata.type # "array" \/ query.type # "string") => filtered = JsArray(<<>>)
    /\ (metadata.type = "array" /\ query = JsString(<<>>)) => filtered = metadata

\* The empty query met a metadata that is no array.
C6_Witness ==
  /\ pc = "filtered"
  /\ metadata.type # "array"
  /\ query = JsString(<<>>)
  /\ filtered = JsArray(<<>>)

\* metadata is an array of records and query a non-empty string.
RecordsAndQuery ==
  /\ pc = "filtered"
  /\ metadata.type = "array"
  /\ \A i \in 1..Len(metadata.val) : ~IsNullish(metadata.val[i])
  /\ query.type = "string"
  /\ query.val # <<>>

InSeq(x, a) == \E j \in 1..Len(a) : a[j] = x

SpacesOf(q) == {i \in 1..Len(q) : q[i] = " "}

\* q is w1 + " " + w2 with w1 and w2 non-empty and without a space.
TwoWords(q) ==
  /\ Cardinality(SpacesOf(q)) = 1
  /\ SpacesOf(q) \cap {1, Len(q)} = {}

FirstWord(q) == SubSeq(q, 1, Min(SpacesOf(q)) - 1)
SecondWord(q) == SubSeq(q, Min(SpacesOf(q)) + 1, Len(q))

FilteredBy(w) == filterMetadata(metadata, JsString(w)).val

\* C7: for a query w1 + " " + w2 the result is the records, in input order,
\* that filterMetadata returns for w1 or returns for w2.
C7_TwoWordQueryIsUnion ==
  (RecordsAndQuery /\ TwoWords(query.val)) =>
    filtered =
      JsArray(SelectSeq(metadata.val,
                        LAMBDA r : \/ InSeq(r, FilteredBy(FirstWord(query.val)))
                                   \/ InSeq(r, FilteredBy(SecondWord(query.val)))))

\* Each word alone returns one record, not the same one, and the query of the
\* two words returned both.
C7_Witness ==
  /\ RecordsAndQuery
  /\ TwoWords(query.val)
  /\ Len(FilteredBy(FirstWord(query.val))) = 1
  /\ Len(FilteredBy(SecondWord(query.val))) = 1
  /\ FilteredBy(FirstWord(query.val)) # FilteredBy(SecondWord(query.val))
  /\ Len(filtered.val) = 2

\* The words of a query; the tokens a word with special characters adds
\* besides itself: its pieces between special characters and the word with
\* the special characters removed.
WordsOf(q) == {Split(q, {" "})[i] : i \in 1..Len(Split(q, {" "}))}

ExpansionsOf(w) ==
  {Split(w, SPECIAL_CHARS)[i] : i \in 1..Len(Split(w, SPECIAL_CHARS))}
    \cup {RemoveSpecialChars(w)}

\* C8: for every query word with a special character, every record whose
\* flattened text contains, whatever the case, a piece of the word or the word
\* without its special characters, that token being longer than one
\* character, is returned.
C8_SpecialCharExpansionMatches ==
  RecordsAndQuery =>
    \A w \in WordsOf(query.val) :
      HasSpecialChars(w) =>
        \A t \in ExpansionsOf(w) :
          Len(t) > 1 =>
            \A i \in 1..Len(metadata.val) :
              Includes(formatMetadataValues(metadata.val[i]), ToLowerCase(t))
                => InSeq(metadata.val[i], filtered.val)

\* The query B-a returned a record whose title is Ba and that holds no hyphen.
C8_Witness ==
  /\ RecordsAndQuery
  /\ query.val = <<"B", "-", "a">>
  /\ \E j \in 1..Len(filtered.val) :
       /\ filtered.val[j].title = JsString(<<"B", "a">>)
       /\ filtered.val[j].author = JsNull
       /\ filtered.val[j].keywords = JsNull

\* No two characters of q stand side by side without a space: every word of q
\* is empty or one character.
OnlyShortWords(q) == \A i \in 1..(Len(q) - 1) : q[i] = " " \/ q[i + 1] = " "

\* C9: a non-empty query whose words are all empty or one character long
\* returns the empty collection.
C9_ShortWordsMatchNothing ==
  (RecordsAndQuery /\ OnlyShortWords(query.val)) => filtered = JsArray(<<>>)

\* The query "a -" met a record whose text holds an a, and returned nothing.
C9_Witness ==
  /\ RecordsAndQuery
  /\ query.val = <<"a", " ", "-">>
  /\ \E i \in 1..Len(metadata.val) : metadata.val[i].siteName = JsString(<<"a">>)
  /\ filtered = JsArray(<<>>)

\* The single values of a record: its field strings and its keyword entries.
SingleValues(r) ==
  {r[f].val : f \in {g \in StringFields : r[g].type = "string"}}
    \cup (IF r.keywords.type = "array"
          THEN {r.keywords.val[i] : i \in 1..Len(r.keywords.val)}
          ELSE {})

\* C10: a record is returned only when some candidate token is a substring of
\* the cleaned lower-case text of one single value: a field string or one
\* keyword entry, never text that runs from one value into the next.
C10_MatchWithinOneValue ==
  RecordsAndQuery =>
    \A j \in 1..Len(filtered.val) :
      \E i \in 1..Len(getQueryArray(query.val)) :
        \E v \in SingleValues(filtered.val[j]) :
          Includes(ToLowerCase(RemoveSpecialChars(v)),
                   ToLowerCase(getQueryArray(query.val)[i]))

====
